---------------------------- MODULE Spec2Model ----------------------------
(***************************************************************************)
(* Model of log_highlighter.py: the command-line entry point and           *)
(* extract_and_highlight_issues.  Text is modelled character by character: *)
(* a string is a sequence of one-character strings, so that rstrip, the    *)
(* two regular expressions and int() are computed, not assumed.            *)
(* Positions are 0-based as in the source; lines[j] is At(lines, j).       *)
(***************************************************************************)
EXTENDS Integers, Sequences, FiniteSets, TLC

VARIABLES
    argv,           \* sys.argv: <<script, path?, context?>>
    fs,             \* the file behind argv[1]: [status, content]
    pc,             \* "main", "open", "scan", "exit"
    context_lines,  \* parameter of extract_and_highlight_issues
    lines,          \* file.readlines()
    i,              \* loop index
    result,         \* the list built by the scan
    stdout,         \* the records of result printed by the final loop
    messages,       \* usage / error diagnostics printed
    status,         \* process exit status, -1 while running
    prov,           \* history: for each record of result, the position it
                    \* was taken from, how, and the value of i at the time
    reads,          \* history: every index used to subscript lines
    classified      \* history: the positions the while loop has classified

vars == <<argv, fs, pc, context_lines, lines, i, result, stdout, messages,
          status, prov, reads, classified>>

-----------------------------------------------------------------------------
(* Bounds of the model *)

MaxLines == 4
MaxCtx == 2

-----------------------------------------------------------------------------
(* Characters and strings *)

Max(a, b) == IF a >= b THEN a ELSE b
Min(a, b) == IF a <= b THEN a ELSE b

Digits == {"0", "1", "2", "3", "4", "5", "6", "7", "8", "9"}

\* the characters str.rstrip(), int() and \s treat as whitespace (those of
\* ASCII that a text line can hold)
Whitespace == {" ", "\t", "\n", "\r", "\f"}

RECURSIVE rstrip(_)
rstrip(s) ==
    IF Len(s) > 0 /\ s[Len(s)] \in Whitespace
    THEN rstrip(SubSeq(s, 1, Len(s) - 1))
    ELSE s

RECURSIVE lstrip(_)
lstrip(s) ==
    IF Len(s) > 0 /\ s[1] \in Whitespace THEN lstrip(Tail(s)) ELSE s

\* s has the literal p at (1-based) offset k
HasAt(s, k, p) ==
    /\ k + Len(p) - 1 <= Len(s)
    /\ \A n \in 1..Len(p) : s[k + n - 1] = p[n]

\* first offset >= k of s whose character is not in S (Len(s)+1 if none)
RECURSIVE SkipWhile(_, _, _)
SkipWhile(s, k, S) ==
    IF k <= Len(s) /\ s[k] \in S THEN SkipWhile(s, k + 1, S) ELSE k

\* ".*$" from offset k: "." matches anything but a newline, "$" matches at
\* the end of the string or just before a newline that ends it
DotStarEnd(s, k) ==
    \A n \in k..Len(s) : s[n] = "\n" => n = Len(s)

HeaderLiteral ==
    <<"*", " ", "*", "*", "[", "I", "S", "S", "U", "E", "]", "*", "*">>

RowLiteral == <<"*", " ", "R", "o", "w", " ">>

\* header_pattern.match(line):  ^\* \*\*\[ISSUE\]\*\*.*$
header_pattern(line) ==
    /\ HasAt(line, 1, HeaderLiteral)
    /\ DotStarEnd(line, Len(HeaderLiteral) + 1)

\* issue_row_pattern.match(line):  ^\s*\* Row \d+:.*$
issue_row_pattern(line) ==
    LET a == SkipWhile(line, 1, Whitespace)
        b == a + Len(RowLiteral)
        c == SkipWhile(line, b, Digits)
    IN  /\ HasAt(line, a, RowLiteral)
        /\ c > b
        /\ HasAt(line, c, <<":">>)
        /\ DotStarEnd(line, c + 1)

\* the terminal colour directives of colorama
FORE_CYAN == <<"ESC", "[", "3", "6", "m">>
FORE_RED  == <<"ESC", "[", "3", "1", "m">>
RESET_ALL == <<"ESC", "[", "0", "m">>

HeaderRecordNoReset(line) == FORE_CYAN \o line
HeaderRecord(line) == FORE_CYAN \o line \o RESET_ALL

RowRecordCyan(line) == FORE_CYAN \o line \o RESET_ALL
RowRecord(line) == FORE_RED \o line \o RESET_ALL

SepWidth == 80
SeparatorShort == [n \in 1..(SepWidth - 1) |-> "-"]
Separator == [n \in 1..SepWidth |-> "-"]

-----------------------------------------------------------------------------
(* Python list and range *)

\* range(a, b) as a sequence
Range(a, b) == [n \in 1..Max(0, b - a) |-> a + n - 1]

\* lines[j] raises IndexError outside -len..len-1; a negative j counts from
\* the end
InRange(seq, j) == -Len(seq) <= j /\ j < Len(seq)
At(seq, j) == IF j >= 0 THEN seq[j + 1] ELSE seq[Len(seq) + j + 1]

StartIdxUnclipped(idx, ctx) == idx - ctx
StartIdx(idx, ctx) == Max(0, idx - ctx)

EndIdxWide(n, idx, ctx) == Min(n, idx + ctx + 2)
EndIdxNarrow(n, idx, ctx) == Min(n, idx + ctx)
EndIdx(n, idx, ctx) == Min(n, idx + ctx + 1)

-----------------------------------------------------------------------------
(* int(sys.argv[2]) *)

DigitValue(ch) == CHOOSE v \in 0..9 : <<"0", "1", "2", "3", "4", "5", "6", "7", "8", "9">>[v + 1] = ch

RECURSIVE DecimalValue(_)
DecimalValue(s) ==
    IF Len(s) = 0 THEN 0
    ELSE 10 * DecimalValue(SubSeq(s, 1, Len(s) - 1)) + DigitValue(s[Len(s)])

Unsigned(s) == IF Len(s) > 0 /\ s[1] \in {"+", "-"} THEN Tail(s) ELSE s

\* int(s) succeeds: optional surrounding whitespace, optional sign, digits
\* (digit-group underscores are not modelled)
IsIntLiteral(s) ==
    LET t == Unsigned(lstrip(rstrip(s)))
    IN  Len(t) > 0 /\ \A n \in 1..Len(t) : t[n] \in Digits

IntAbs(s) == DecimalValue(Unsigned(lstrip(rstrip(s))))
int(s) ==
    LET t == lstrip(rstrip(s))
    IN  IF Len(t) > 0 /\ t[1] = "-" THEN 0 - IntAbs(s) ELSE IntAbs(s)

DefaultContext == 2

-----------------------------------------------------------------------------
(* The inputs *)

NL == <<"\n">>
HeaderText == HeaderLiteral \o <<" ", "X">>
RowText == RowLiteral \o <<"1", ":", " ", "d", "a", "t", "a">>

PlainLine == <<"a", " ">> \o NL                    \* trailing blank
HeaderLine == HeaderText \o NL
RowLine == <<" ">> \o RowLiteral \o <<"1", "2", ":">> \o NL   \* indented
DashLine == [n \in 1..SepWidth |-> "-"] \o <<" ">> \o NL   \* 80 dashes
NearRowLine == RowLiteral \o <<":">> \o NL         \* no row number: plain
NearHeaderLine == <<" ">> \o HeaderText \o NL      \* indented: plain

LineSet == {PlainLine, HeaderLine, RowLine, DashLine, NearRowLine}

ExampleFile ==
    << <<"a">> \o NL, HeaderText \o NL, RowText \o NL, <<"b">> \o NL, <<"c">> >>

BoundedFiles == UNION {[1..n -> LineSet] : n \in 0..MaxLines}

Files == BoundedFiles \cup {ExampleFile, <<NearHeaderLine, RowLine>>}

Script == <<"l", "h">>
Path == <<"l", "o", "g">>

Numeral(n) == << <<"0", "1", "2", "3", "4", "5", "6", "7", "8", "9">>[n + 1] >>

ContextArgs ==
    {Numeral(n) : n \in 0..MaxCtx}
        \cup {<<"-">> \o Numeral(1), <<" ", "+">> \o Numeral(1), <<"x">>}

ArgVectors ==
    {<<Script>>, <<Script, Path>>} \cup {<<Script, Path, a>> : a \in ContextArgs}

FileStates(files) ==
    {[status |-> "ok", content |-> f] : f \in files}
        \cup {[status |-> st, content |-> <<>>] : st \in {"missing", "unreadable"}}

\* the state when the interpreter reaches the __main__ block
Start(files) ==
    /\ argv \in ArgVectors
    /\ fs \in FileStates(files)
    /\ pc = "main"
    /\ context_lines = DefaultContext
    /\ lines = <<>>
    /\ i = 0
    /\ result = <<>>
    /\ stdout = <<>>
    /\ messages = <<>>
    /\ status = -1
    /\ prov = <<>>
    /\ reads = {}
    /\ classified = <<>>

Init == Start(Files)

\* one line of each class is enough to drive every path of the scan
ScanFiles == UNION {[1..n -> {PlainLine, HeaderLine, RowLine}] : n \in 0..MaxLines}

ScanInit == Start(ScanFiles)

-----------------------------------------------------------------------------
(* __main__ *)

scanVars == <<lines, i, result, prov, reads, classified>>

\* len(sys.argv) < 2: usage message, sys.exit(1)
Usage ==
    /\ pc = "main"
    /\ Len(argv) < 2
    /\ messages' = Append(messages, "usage")
    /\ status' = 1
    /\ pc' = "exit"
    /\ UNCHANGED <<argv, fs, context_lines, stdout>>
    /\ UNCHANGED scanVars

\* int(sys.argv[2]) raises ValueError: uncaught, traceback, exit status 1
BadInt ==
    /\ pc = "main"
    /\ Len(argv) > 2
    /\ ~IsIntLiteral(argv[3])
    /\ messages' = Append(messages, "traceback")
    /\ status' = 1
    /\ pc' = "exit"
    /\ UNCHANGED <<argv, fs, context_lines, stdout>>
    /\ UNCHANGED scanVars

\* context_lines = int(sys.argv[2]) if len(sys.argv) > 2 else 2; call
CallExtract ==
    /\ pc = "main"
    /\ Len(argv) >= 2
    /\ Len(argv) > 2 => IsIntLiteral(argv[3])
    /\ context_lines' = IF Len(argv) > 2 THEN int(argv[3]) ELSE DefaultContext
    /\ pc' = "open"
    /\ UNCHANGED <<argv, fs, stdout, messages, status>>
    /\ UNCHANGED scanVars

-----------------------------------------------------------------------------
(* extract_and_highlight_issues *)

\* open + readlines succeed; result = [], i = 0
OpenOk ==
    /\ pc = "open"
    /\ fs.status = "ok"
    /\ lines' = fs.content
    /\ result' = <<>>
    /\ i' = 0
    /\ pc' = "scan"
    /\ UNCHANGED <<argv, fs, context_lines, stdout, messages, status, prov,
                   reads, classified>>

\* except FileNotFoundError: print, return; the script then ends normally
OpenNotFound ==
    /\ pc = "open"
    /\ fs.status = "missing"
    /\ messages' = Append(messages, "not_found")
    /\ status' = 0
    /\ pc' = "exit"
    /\ UNCHANGED <<argv, fs, context_lines, stdout>>
    /\ UNCHANGED scanVars

\* except Exception: print, return; the script then ends normally
OpenError ==
    /\ pc = "open"
    /\ fs.status = "unreadable"
    /\ messages' = Append(messages, "read_error")
    /\ status' = 0
    /\ pc' = "exit"
    /\ UNCHANGED <<argv, fs, context_lines, stdout>>
    /\ UNCHANGED scanVars

Line == rstrip(At(lines, i))

NextIStuck(idx) == idx
NextI(idx) == idx + 1

\* header branch: append the CYAN record, i += 1, continue
StepHeader ==
    /\ pc = "scan"
    /\ i < Len(lines)
    /\ header_pattern(Line)
    /\ result' = Append(result, HeaderRecord(Line))
    /\ prov' = Append(prov, [pos |-> i, kind |-> "header", step |-> i])
    /\ reads' = reads \cup {i}
    /\ classified' = Append(classified, i)
    /\ i' = NextI(i)
    /\ UNCHANGED <<argv, fs, pc, context_lines, lines, stdout, messages, status>>

\* the records one issue row appends, and their origins
Before == Range(StartIdx(i, context_lines), i)
After == Range(i + 1, EndIdx(Len(lines), i, context_lines))

ContextRecords(js) == [n \in 1..Len(js) |-> rstrip(At(lines, js[n]))]
ContextOrigins(js, k) ==
    [n \in 1..Len(js) |-> [pos |-> js[n], kind |-> k, step |-> i]]

\* issue-row branch: leading context, RED record, trailing context,
\* separator, i += 1.  A subscript out of range raises IndexError, which
\* nothing catches: traceback, exit status 1, nothing printed.
StepIssueRow ==
    /\ pc = "scan"
    /\ i < Len(lines)
    /\ ~header_pattern(Line)
    /\ issue_row_pattern(Line)
    /\ reads' = reads \cup {i} \cup {Before[n] : n \in 1..Len(Before)}
                      \cup {After[n] : n \in 1..Len(After)}
    /\ classified' = Append(classified, i)
    /\ IF \A j \in reads' : InRange(lines, j)
       THEN /\ result' = result \o ContextRecords(Before) \o <<RowRecord(Line)>>
                              \o ContextRecords(After) \o <<Separator>>
            /\ prov' = prov \o ContextOrigins(Before, "before")
                            \o <<[pos |-> i, kind |-> "row", step |-> i]>>
                            \o ContextOrigins(After, "after")
                            \o <<[pos |-> i, kind |-> "separator", step |-> i]>>
            /\ i' = NextI(i)
            /\ UNCHANGED <<pc, status, messages>>
       ELSE /\ messages' = Append(messages, "traceback")
            /\ status' = 1
            /\ pc' = "exit"
            /\ UNCHANGED <<result, prov, i>>
    /\ UNCHANGED <<argv, fs, context_lines, lines, stdout>>

\* neither pattern matches: i += 1
StepPlain ==
    /\ pc = "scan"
    /\ i < Len(lines)
    /\ ~header_pattern(Line)
    /\ ~issue_row_pattern(Line)
    /\ reads' = reads \cup {i}
    /\ classified' = Append(classified, i)
    /\ i' = NextI(i)
    /\ UNCHANGED <<argv, fs, pc, context_lines, lines, result, stdout, messages,
                   status, prov>>

\* the while loop ends; every record of result is printed; the script ends
PrintResults ==
    /\ pc = "scan"
    /\ i >= Len(lines)
    /\ stdout' = result
    /\ status' = 0
    /\ pc' = "exit"
    /\ UNCHANGED <<argv, fs, context_lines, messages>>
    /\ UNCHANGED scanVars

Next ==
    \/ Usage
    \/ BadInt
    \/ CallExtract
    \/ OpenOk
    \/ OpenNotFound
    \/ OpenError
    \/ StepHeader
    \/ StepIssueRow
    \/ StepPlain
    \/ PrintResults

Spec == Init /\ [][Next]_vars

\* a run is never suspended: the interpreter always takes the next step
ScanSpec == ScanInit /\ [][Next]_vars /\ WF_vars(Next)

-----------------------------------------------------------------------------
(* Vocabulary of the properties.  The windows are written out here from   *)
(* the specification's formulas, independently of StartIdx and EndIdx.    *)

N == Len(lines)
Positions == 0..(N - 1)
Trimmed(p) == rstrip(lines[p + 1])
IsHeader(p) == header_pattern(Trimmed(p))
IsIssueRow(p) == ~IsHeader(p) /\ issue_row_pattern(Trimmed(p))
Headers == {p \in Positions : IsHeader(p)}
IssueRows == {p \in Positions : IsIssueRow(p)}

\* the scan ran to completion and its result was printed
Finished == pc = "exit" /\ fs.status = "ok" /\ status = 0

WinLo(p) == IF p - context_lines > 0 THEN p - context_lines ELSE 0
WinHi(p) == IF p + context_lines + 1 < N THEN p + context_lines + 1 ELSE N
InWindow(q, p) == WinLo(p) <= q /\ q < WinHi(p)

Cyan(text) == <<"ESC", "[", "3", "6", "m">> \o text \o <<"ESC", "[", "0", "m">>
Red(text) == <<"ESC", "[", "3", "1", "m">> \o text \o <<"ESC", "[", "0", "m">>
IsDashes80(r) == Len(r) = 80 /\ \A n \in 1..80 : r[n] = "-"

Out == DOMAIN stdout
Decorated == {k \in Out : prov[k].kind \in {"header", "row"}}
Block(p) == {k \in Out : prov[k].step = p}
NonSeparator == {k \in Out : prov[k].kind # "separator"}

\* the block the specification prescribes for the issue row at p
ExpectedBlock(p) ==
    [n \in 1..(p - WinLo(p)) |-> Trimmed(WinLo(p) + n - 1)]
        \o << Red(Trimmed(p)) >>
        \o [n \in 1..(WinHi(p) - p - 1) |-> Trimmed(p + n)]
        \o << [n \in 1..80 |-> "-"] >>

-----------------------------------------------------------------------------
\* C1: after a completed run with context_size >= 0, every Header line and
\* every IssueRow line has exactly one decorated record in the output, that
\* record is the CYAN (Header) or RED (IssueRow) wrapping of the line's
\* trimmed text, and the decorated records are in input order.
C1_DecoratedOnce ==
    (Finished /\ context_lines >= 0) =>
        /\ \A p \in Positions :
             LET here == {k \in Decorated : prov[k].pos = p}
             IN  /\ IsHeader(p) =>
                      /\ Cardinality(here) = 1
                      /\ \A k \in here : stdout[k] = Cyan(Trimmed(p))
                 /\ IsIssueRow(p) =>
                      /\ Cardinality(here) = 1
                      /\ \A k \in here : stdout[k] = Red(Trimmed(p))
                 /\ (~IsHeader(p) /\ ~IsIssueRow(p)) => here = {}
        /\ \A k1, k2 \in Decorated : k1 < k2 => prov[k1].pos < prov[k2].pos

\* a completed run over a file with a Header directly after an IssueRow,
\* so that the Header is also printed as context
C1_Witness ==
    /\ Finished
    /\ context_lines >= 1
    /\ \E p \in Headers : p - 1 \in IssueRows
    /\ Cardinality(Decorated) >= 2

\* C2: after a completed run with context_size >= 0, the records appended
\* for the IssueRow at position p are one contiguous run of the output equal
\* to: the trimmed lines max(0,p-c)..p-1, the RED record of line p, the
\* trimmed lines p+1..min(N,p+c+1)-1, the separator; and every index used
\* to subscript lines is within 0..N-1.
C2_ContextBlock ==
    /\ (pc \in {"scan", "exit"} /\ context_lines >= 0) => reads \subseteq Positions
    /\ (Finished /\ context_lines >= 0) =>
         \A p \in IssueRows :
            \E lo \in Out :
               LET hi == lo + Len(ExpectedBlock(p)) - 1
               IN  /\ Block(p) = lo..hi
                   /\ SubSeq(stdout, lo, hi) = ExpectedBlock(p)
                   /\ p = 0 => stdout[lo] = Red(Trimmed(0))
                   /\ p = N - 1 => stdout[hi - 1] = Red(Trimmed(p))

\* a completed run with an IssueRow on the first line and one on the last,
\* both windows clipped
C2_Witness ==
    /\ Finished
    /\ context_lines >= 1
    /\ N >= 3
    /\ 0 \in IssueRows
    /\ N - 1 \in IssueRows

\* C3 as stated: the number of output records equal to 80 dashes is the
\* number of IssueRow lines, for every input.
C3_SeparatorCount ==
    Finished =>
        Cardinality({k \in Out : IsDashes80(stdout[k])}) = Cardinality(IssueRows)

\* C3 amended: a separator is appended as the last record of every
\* IssueRow's block and by no other step, and the number of output records
\* equal to 80 dashes is the number of IssueRow lines plus one for every
\* line with trimmed text of 80 dashes in the context window of an IssueRow.
C3_SeparatorCountAmended ==
    Finished =>
        /\ \A p \in IssueRows :
             \E k \in Block(p) :
                /\ prov[k].kind = "separator"
                /\ IsDashes80(stdout[k])
                /\ \A m \in Block(p) : m <= k
        /\ \A k \in Out : prov[k].kind = "separator" => prov[k].pos \in IssueRows
        /\ Cardinality({k \in Out : IsDashes80(stdout[k])})
             = Cardinality(IssueRows)
               + Cardinality({pq \in IssueRows \X Positions :
                                /\ pq[2] # pq[1]
                                /\ InWindow(pq[2], pq[1])
                                /\ IsDashes80(Trimmed(pq[2]))})

\* a completed run in which a line of 80 dashes lies in an IssueRow's window
C3_Witness ==
    /\ Finished
    /\ \E p \in IssueRows : \E q \in Positions :
          q # p /\ InWindow(q, p) /\ IsDashes80(Trimmed(q))

\* C4: after a completed run with context_size >= 0, a line that matches
\* neither pattern and lies in no IssueRow's window contributes no output
\* record; with no Header and no IssueRow the output is empty.
C4_NoStrayPlain ==
    (Finished /\ context_lines >= 0) =>
        /\ \A p \in Positions :
             (/\ ~IsHeader(p)
              /\ ~IsIssueRow(p)
              /\ \A q \in IssueRows : ~InWindow(p, q))
                => \A k \in Out : prov[k].pos # p
        /\ \A k \in NonSeparator : stdout[k] \in
             {Trimmed(prov[k].pos), Cyan(Trimmed(prov[k].pos)), Red(Trimmed(prov[k].pos))}
        /\ (Headers = {} /\ IssueRows = {}) => stdout = <<>>

\* a completed run with an IssueRow, a plain line inside its window and a
\* plain line just outside it
C4_Witness ==
    /\ Finished
    /\ context_lines >= 0
    /\ \E q \in IssueRows : \E p1, p2 \in Positions \ (Headers \cup IssueRows) :
          /\ InWindow(p1, q)
          /\ p2 = WinHi(q)
          /\ \A r \in IssueRows : ~InWindow(p2, r)

\* C5 as stated: when the file of argument 1 cannot be opened or read, an
\* error is printed, no record is printed, and the exit status is non-zero;
\* only a run that read the file and printed its result exits with zero.
C5_ReadFailureExitsNonZero ==
    (pc = "exit" /\ Len(argv) >= 2) =>
        /\ (fs.status # "ok" /\ (Len(argv) > 2 => IsIntLiteral(argv[3]))) =>
              /\ messages # <<>>
              /\ stdout = <<>>
              /\ status # 0
        /\ status = 0 => fs.status = "ok"

\* C6 as stated: with a negative integer as the context-size argument the
\* run is rejected before extraction: the file is never opened, nothing is
\* appended or printed, and the process ends with an error.
C6_NegativeContextRejected ==
    (/\ Len(argv) > 2
     /\ IsIntLiteral(argv[3])
     /\ int(argv[3]) < 0) =>
        /\ pc \in {"main", "exit"}
        /\ result = <<>>
        /\ stdout = <<>>
        /\ pc = "exit" => (status # 0 /\ messages # <<>>)

\* the input position each non-separator output record was taken from, in
\* output order
RECURSIVE PositionsFrom(_)
PositionsFrom(k) ==
    IF k > Len(stdout) THEN <<>>
    ELSE (IF prov[k].kind = "separator" THEN <<>> ELSE <<prov[k].pos>>)
            \o PositionsFrom(k + 1)

NonDecreasing(seq) == \A n \in 1..(Len(seq) - 1) : seq[n] <= seq[n + 1]

\* first and last input position printed when the scan is at p
FirstEmitted(p) == IF IsIssueRow(p) THEN WinLo(p) ELSE p
LastEmitted(p) == IF IsIssueRow(p) THEN WinHi(p) - 1 ELSE p

\* C7 as stated: after a completed run with context_size >= 0 the input
\* positions of the non-separator output records never decrease.
C7_OrderPreserved ==
    (Finished /\ context_lines >= 0) => NonDecreasing(PositionsFrom(1))

\* C7 amended: the records appended at one scan position come from strictly
\* increasing input positions, and the records of an earlier scan position
\* precede those of a later one; the positions of the whole output are
\* non-decreasing exactly when, for all Header/IssueRow positions p < q, the
\* last position printed for p is at most the first position printed for q.
C7_OrderPreservedAmended ==
    (Finished /\ context_lines >= 0) =>
        /\ \A k1, k2 \in NonSeparator :
             k1 < k2 =>
                /\ prov[k1].step <= prov[k2].step
                /\ prov[k1].step = prov[k2].step => prov[k1].pos < prov[k2].pos
        /\ NonDecreasing(PositionsFrom(1))
             <=> \A p, q \in Headers \cup IssueRows :
                    p < q => LastEmitted(p) <= FirstEmitted(q)

\* a completed run with two IssueRows whose windows share two or more
\* lines: a position is printed after a later one
C7_Witness ==
    /\ Finished
    /\ context_lines >= 1
    /\ \E p, q \in IssueRows : p < q /\ WinHi(p) - 1 > WinLo(q)
    /\ ~NonDecreasing(PositionsFrom(1))

\* the example of the specification, by its trimmed lines, with
\* context_size = 1
IsExample ==
    /\ N = 5
    /\ [n \in 1..5 |-> Trimmed(n - 1)]
         = << <<"a">>,
              <<"*", " ", "*", "*", "[", "I", "S", "S", "U", "E", "]", "*", "*", " ", "X">>,
              <<"*", " ", "R", "o", "w", " ", "1", ":", " ", "d", "a", "t", "a">>,
              <<"b">>,
              <<"c">> >>
    /\ context_lines = 1

\* C8 as stated: for the example the output is the decorated header, the
\* decorated issue row, "b", the separator.
C8_ExampleOutput ==
    (Finished /\ IsExample) =>
        stdout = << Cyan(Trimmed(1)), Red(Trimmed(2)), <<"b">>,
                    [n \in 1..80 |-> "-"] >>

\* C8 amended: for the example the output is the decorated header, the
\* header's trimmed text as plain leading context of the issue row, the
\* decorated issue row, "b", the separator.
C8_ExampleOutputAmended ==
    (Finished /\ IsExample) =>
        stdout = << Cyan(Trimmed(1)), Trimmed(1), Red(Trimmed(2)), <<"b">>,
                    [n \in 1..80 |-> "-"] >>

\* the example has been run to completion
C8_Witness == Finished /\ IsExample /\ Len(stdout) > 0

\* positions printed as plain text in the trailing context of the issue row
\* at p, and in the leading context of the issue row at q
TrailingOf(p) == {prov[k].pos : k \in {m \in Out : prov[m].step = p /\ prov[m].kind = "after"}}
LeadingOf(q) == {prov[k].pos : k \in {m \in Out : prov[m].step = q /\ prov[m].kind = "before"}}

\* C9 as stated: with context_size c >= 1, two IssueRows at p < q with
\* q - p < 2c + 1 have some line printed as plain text both in the trailing
\* context of p and in the leading context of q.
C9_OverlapDuplicates ==
    (Finished /\ context_lines >= 1) =>
        \A p, q \in IssueRows :
            (p < q /\ q - p < 2 * context_lines + 1) =>
                TrailingOf(p) \cap LeadingOf(q) # {}

\* C9 amended: with c >= 1 and IssueRows at p < q, the lines printed as
\* plain text in both the trailing context of p and the leading context of
\* q are those at positions max(p+1, q-c)..min(q-1, p+c); there is at least
\* one when 2 <= q - p < 2c + 1, and none when q = p + 1 (adjacent rows
\* appear only once each as plain text, in the other's context).
C9_OverlapDuplicatesAmended ==
    (Finished /\ context_lines >= 1) =>
        \A p, q \in IssueRows :
            p < q =>
                /\ TrailingOf(p) \cap LeadingOf(q)
                     = {r \in Positions :
                          /\ p < r /\ r < q
                          /\ r >= q - context_lines
                          /\ r <= p + context_lines}
                /\ (2 <= q - p /\ q - p < 2 * context_lines + 1)
                     => TrailingOf(p) \cap LeadingOf(q) # {}
                /\ q = p + 1 => TrailingOf(p) \cap LeadingOf(q) = {}

\* a completed run with IssueRows at p and p + 2 sharing the plain record
\* of line p + 1, and with two adjacent IssueRows
C9_Witness ==
    /\ Finished
    /\ context_lines >= 1
    /\ \E p \in IssueRows :
          /\ p + 2 \in IssueRows
          /\ p + 1 \in TrailingOf(p) \cap LeadingOf(p + 2)
    /\ \E q \in IssueRows : q + 1 \in IssueRows

\* C10: the scan is one forward pass.  While scanning, the positions
\* classified so far are 0..i-1 in order, each once; every scan step
\* increases i by exactly 1 and i never decreases; a completed scan has
\* classified exactly N positions; for context_size >= 0 the output never
\* exceeds #Headers + #IssueRows * (2 * context_size + 2) records; and every
\* run ends.
C10_ScanInvariant ==
    /\ classified = [n \in 1..Len(classified) |-> n - 1]
    /\ pc = "scan" => (i = Len(classified) /\ i <= N)
    /\ Finished => (Len(classified) = N /\ i = N /\ stdout = result)
    /\ (pc \in {"scan", "exit"} /\ fs.status = "ok" /\ context_lines >= 0) =>
          Len(result) <= Cardinality(Headers)
                           + Cardinality(IssueRows) * (2 * context_lines + 2)

C10_StepAdvances ==
    /\ i' >= i
    /\ (pc = "scan" /\ pc' = "scan") =>
          (i' = i + 1 /\ classified' = Append(classified, i))
    /\ (pc = "scan" /\ pc' = "exit") => (i = N /\ i' = i)

C10_ForwardPass ==
    /\ []C10_ScanInvariant
    /\ [][C10_StepAdvances]_vars
    /\ <>(pc = "exit")

\* a completed scan of a file of three or more lines holding a Header and
\* an IssueRow
C10_Witness ==
    /\ Finished
    /\ N >= 3
    /\ Headers # {}
    /\ IssueRows # {}
    /\ Len(classified) = N

=============================================================================
